---- MODULE Spec2Model ----
(***************************************************************************)
(* Model of the IAM command module (src/src/iam.cpp): the confirmation     *)
(* prompt yn_prompt and the five operations list_users, list_roles,        *)
(* add_role_to_user, remove_role_from_user and delete_user.                *)
(*                                                                         *)
(* The program state that outlives a call is the standard input stream     *)
(* (the characters not yet consumed and its fail bit).  Every other        *)
(* variable records what the last invocation did: its arguments, the       *)
(* createCoap calls it made, how often it executed a request, what the     *)
(* collaborator answered, what it wrote to stdout/stderr and how it left.  *)
(***************************************************************************)
EXTENDS Integers, Sequences, FiniteSets, TLC

\* ---------------------------------------------------------------- bounds
MaxInput == 2
MaxItems == 2

\* ---------------------------------------------------------------- inputs
Chars == {"y", "n", "x", " "}
Users == {"alice", "a/b"}
Roles == {"admin", ""}
Codes == {201, 202, 205, 403, 418, 500}
NUL == "NUL"

RECURSIVE SeqsUpTo(_, _)
SeqsUpTo(S, n) ==
    IF n = 0 THEN {<<>>}
    ELSE LET shorter == SeqsUpTo(S, n - 1)
         IN  shorter \cup {Append(s, e) : s \in {t \in shorter : Len(t) = n - 1}, e \in S}

\* what a decoded CBOR array can hold: strings, and values that are not strings
\* (get<std::string>() throws on those).  A payload that json::from_cbor rejects
\* is the fault "decode" below.
Items == {[isString |-> TRUE, str |-> "alice"],
          [isString |-> TRUE, str |-> "bob"],
          [isString |-> FALSE, str |-> ""]}
NoPayload == [valid |-> FALSE, items |-> <<>>]
Payloads == {[valid |-> TRUE, items |-> s] : s \in SeqsUpTo(Items, MaxItems)}

\* The collaborator's behaviour during one request.  fault names the call that
\* throws ("none": no call throws); code is the status it answers; payload is
\* the response body.  Fields the operation never gets to observe are blank.
NoResponse == [fault |-> "unused", code |-> 0, payload |-> NoPayload]
EarlyFaults == {[fault |-> f, code |-> 0, payload |-> NoPayload] :
                    f \in {"create", "execute", "status"}}
PlainResponses == {[fault |-> "none", code |-> c, payload |-> NoPayload] : c \in Codes}
ListResponses ==
    EarlyFaults
      \cup {r \in PlainResponses : r.code # 205}
      \cup {[fault |-> f, code |-> 205, payload |-> NoPayload] : f \in {"payload", "decode"}}
      \cup {[fault |-> "none", code |-> 205, payload |-> p] : p \in Payloads}
MutatingResponses == EarlyFaults \cup PlainResponses

\* ---------------------------------------------------------------- output
Out(text) == [stream |-> "stdout", text |-> text]
Err(text) == [stream |-> "stderr", text |-> text]

Digit(d) ==
    CASE d = 0 -> "0" [] d = 1 -> "1" [] d = 2 -> "2" [] d = 3 -> "3" [] d = 4 -> "4"
      [] d = 5 -> "5" [] d = 6 -> "6" [] d = 7 -> "7" [] d = 8 -> "8" [] d = 9 -> "9"

RECURSIVE Dec(_)
Dec(n) == IF n < 10 THEN Digit(n) ELSE Dec(n \div 10) \o Digit(n % 10)

print_coap_error(path, responseCode) ==
    <<Out("The CoAP request to " \o path \o " returned response code: " \o Dec(responseCode))>>

print_error_access_denied ==
    <<Out("This is potentially due to insufficient privileges,\ncheck the IAM policies file if you are the owner of this device.")>>

\* ---------------------------------------------------------------- yn_prompt
\* std::cin >> answer: nothing is read once the stream has failed; otherwise
\* leading whitespace is skipped and one character extracted; reaching the end
\* of the input sets the fail bit and leaves answer as it was.
RECURSIVE cin_read(_, _, _)
cin_read(in, fail, answer) ==
    IF fail THEN [in |-> in, fail |-> TRUE, answer |-> answer]
    ELSE IF in = <<>> THEN [in |-> in, fail |-> TRUE, answer |-> answer]
    ELSE IF Head(in) = " " THEN cin_read(Tail(in), fail, answer)
    ELSE [in |-> Tail(in), fail |-> FALSE, answer |-> Head(in)]

yn_continue_ignores_n(fail, answer) == ~fail /\ answer # "y"

yn_continue(fail, answer) == ~fail /\ answer # "y" /\ answer # "n"

RECURSIVE yn_loop(_, _, _, _, _)
yn_loop(message, in, fail, answer, shown) ==
    LET rd == cin_read(in, fail, answer)
        out == Append(shown, Out(message \o " [y/n]: "))
    IN  IF yn_continue(rd.fail, rd.answer)
        THEN yn_loop(message, rd.in, rd.fail, rd.answer, out)
        ELSE [yes |-> rd.answer = "y", in |-> rd.in, fail |-> rd.fail,
              answer |-> rd.answer, out |-> out]

yn_prompt(message, in, fail) == yn_loop(message, in, fail, NUL, <<>>)

\* ---------------------------------------------------------------- state
VARIABLES
    stdin,      \* characters of standard input not yet consumed
    cinFail,    \* std::cin.fail()
    op,         \* the operation last invoked ("none" before the first)
    user,       \* its user argument ("" for the list operations)
    role,       \* its role argument ("" where there is none)
    stdin0,     \* standard input when it was invoked
    cinFail0,   \* std::cin.fail() when it was invoked
    yes,        \* what yn_prompt returned (FALSE where it was not called)
    answer,     \* the local variable answer when yn_prompt returned
    resp,       \* how the collaborator behaved during its request
    created,    \* its createCoap calls, in order: <<[method, path], ...>>
    executed,   \* how many times it called execute()
    out,        \* what it wrote to stdout and stderr, in order
    result      \* "true", "false", or "threw" when an exception left it

vars == <<stdin, cinFail, op, user, role, stdin0, cinFail0, yes, answer,
          resp, created, executed, out, result>>

Bool(b) == IF b THEN "true" ELSE "false"

\* ---------------------------------------------------------------- list_users
RECURSIVE list_users_loop_no_increment(_, _, _)
list_users_loop_no_increment(items, i, printed) ==
    IF items = <<>> THEN [out |-> printed, threw |-> FALSE]
    ELSE IF ~Head(items).isString THEN [out |-> printed, threw |-> TRUE]
    ELSE list_users_loop_no_increment(Tail(items), i,
             Append(printed, Out("[" \o Dec(i) \o "] UserID: " \o Head(items).str)))

RECURSIVE list_users_loop(_, _, _)
list_users_loop(items, i, printed) ==
    IF items = <<>> THEN [out |-> printed, threw |-> FALSE]
    ELSE IF ~Head(items).isString THEN [out |-> printed, threw |-> TRUE]
    ELSE list_users_loop(Tail(items), i + 1,
             Append(printed, Out("[" \o Dec(i) \o "] UserID: " \o Head(items).str)))

list_users_switch(path, r) ==
    CASE r.code = 205 ->
            IF r.fault = "payload" THEN [out |-> <<>>, threw |-> TRUE, result |-> FALSE]
            ELSE LET header == <<Out("Listing all users...")>>
                 IN  IF r.fault = "decode"
                     THEN [out |-> header, threw |-> TRUE, result |-> FALSE]
                     ELSE LET loop == list_users_loop(r.payload.items, 1, header)
                          IN  [out |-> loop.out, threw |-> loop.threw, result |-> ~loop.threw]
      [] r.code = 403 ->
            [out |-> <<Out("The request to list users (" \o path \o ") was denied.")>>
                         \o print_error_access_denied,
             threw |-> FALSE, result |-> FALSE]
      [] OTHER ->
            [out |-> print_coap_error(path, r.code), threw |-> FALSE, result |-> FALSE]

list_users_call(r) ==
    LET path == "/iam/users"
        coap == <<[method |-> "GET", path |-> path]>>
        caught == Err("Cannot get IAM user list")
    IN  IF r.fault = "create"
        THEN [created |-> coap, executed |-> 0, out |-> <<>>, result |-> "threw"]
        ELSE IF r.fault \in {"execute", "status"}
        THEN [created |-> coap, executed |-> 1, out |-> <<caught>>, result |-> "false"]
        ELSE LET sw == list_users_switch(path, r)
             IN  [created |-> coap, executed |-> 1,
                  out |-> IF sw.threw THEN Append(sw.out, caught) ELSE sw.out,
                  result |-> Bool(sw.result)]

list_users ==
    \E r \in ListResponses :
        LET c == list_users_call(r)
        IN  /\ op' = "list_users" /\ user' = "" /\ role' = ""
            /\ stdin0' = stdin /\ cinFail0' = cinFail
            /\ UNCHANGED <<stdin, cinFail>>
            /\ yes' = FALSE /\ answer' = NUL
            /\ resp' = r
            /\ created' = c.created /\ executed' = c.executed
            /\ out' = c.out /\ result' = c.result

\* ---------------------------------------------------------------- list_roles
RECURSIVE list_roles_loop(_, _, _)
list_roles_loop(items, i, printed) ==
    IF items = <<>> THEN [out |-> printed, threw |-> FALSE]
    ELSE IF ~Head(items).isString THEN [out |-> printed, threw |-> TRUE]
    ELSE list_roles_loop(Tail(items), i + 1,
             Append(printed, Out("[" \o Dec(i) \o "]: " \o Head(items).str)))

list_roles_switch(path, r) ==
    CASE r.code = 205 ->
            IF r.fault = "payload" THEN [out |-> <<>>, threw |-> TRUE, result |-> FALSE]
            ELSE LET header == <<Out("Listing available roles...")>>
                 IN  IF r.fault = "decode"
                     THEN [out |-> header, threw |-> TRUE, result |-> FALSE]
                     ELSE LET loop == list_roles_loop(r.payload.items, 1, header)
                          IN  [out |-> loop.out, threw |-> loop.threw, result |-> ~loop.threw]
      [] r.code = 403 ->
            [out |-> <<Out("The request to list roles (" \o path \o ") was denied.")>>
                         \o print_error_access_denied,
             threw |-> FALSE, result |-> FALSE]
      [] OTHER ->
            [out |-> print_coap_error(path, r.code), threw |-> FALSE, result |-> FALSE]

list_roles_call(r) ==
    LET path == "/iam/roles"
        coap == <<[method |-> "GET", path |-> path]>>
        caught == Err("Cannot get IAM role list")
    IN  IF r.fault = "create"
        THEN [created |-> coap, executed |-> 0, out |-> <<>>, result |-> "threw"]
        ELSE IF r.fault \in {"execute", "status"}
        THEN [created |-> coap, executed |-> 1, out |-> <<caught>>, result |-> "false"]
        ELSE LET sw == list_roles_switch(path, r)
             IN  [created |-> coap, executed |-> 1,
                  out |-> IF sw.threw THEN Append(sw.out, caught) ELSE sw.out,
                  result |-> Bool(sw.result)]

list_roles ==
    \E r \in ListResponses :
        LET c == list_roles_call(r)
        IN  /\ op' = "list_roles" /\ user' = "" /\ role' = ""
            /\ stdin0' = stdin /\ cinFail0' = cinFail
            /\ UNCHANGED <<stdin, cinFail>>
            /\ yes' = FALSE /\ answer' = NUL
            /\ resp' = r
            /\ created' = c.created /\ executed' = c.executed
            /\ out' = c.out /\ result' = c.result

\* ---------------------------------------------------------------- add_role_to_user
add_role_to_user_path(u, ro) == "/iam/users/" \o u \o "/roles/" \o ro

add_role_to_user_switch_no_guidance(path, responseCode) ==
    CASE responseCode = 201 ->
            [out |-> <<Out("Success.")>>, status |-> TRUE]
      [] responseCode = 403 ->
            [out |-> <<Out("The request was denied.")>>, status |-> FALSE]
      [] responseCode = 500 ->
            [out |-> <<Out("The request returned error 500.\nAre you sure you typed in the right role id and user id?")>>,
             status |-> FALSE]
      [] OTHER ->
            [out |-> print_coap_error(path, responseCode), status |-> FALSE]

add_role_to_user_switch_accepts_202(path, responseCode) ==
    CASE responseCode \in {201, 202} ->
            [out |-> <<Out("Success.")>>, status |-> TRUE]
      [] responseCode = 403 ->
            [out |-> <<Out("The request was denied.")>> \o print_error_access_denied,
             status |-> FALSE]
      [] responseCode = 500 ->
            [out |-> <<Out("The request returned error 500.\nAre you sure you typed in the right role id and user id?")>>,
             status |-> FALSE]
      [] OTHER ->
            [out |-> print_coap_error(path, responseCode), status |-> FALSE]

add_role_to_user_switch(path, responseCode) ==
    CASE responseCode = 201 ->
            [out |-> <<Out("Success.")>>, status |-> TRUE]
      [] responseCode = 403 ->
            [out |-> <<Out("The request was denied.")>> \o print_error_access_denied,
             status |-> FALSE]
      [] responseCode = 500 ->
            [out |-> <<Out("The request returned error 500.\nAre you sure you typed in the right role id and user id?")>>,
             status |-> FALSE]
      [] OTHER ->
            [out |-> print_coap_error(path, responseCode), status |-> FALSE]

add_role_to_user_cancelled(path, shown) ==
    [created |-> <<>>, executed |-> 0,
     out |-> Append(shown, Out("Action cancelled.")), result |-> "true"]

add_role_to_user_call(u, ro, in, fail, r) ==
    LET path == add_role_to_user_path(u, ro)
        p == yn_prompt("Add role \"" \o ro \o "\" to user \"" \o u \o "\"? ", in, fail)
        coap == <<[method |-> "PUT", path |-> path]>>
        caught == Err("An unknown error occurred.")
        base == [yes |-> p.yes, answer |-> p.answer, in |-> p.in, fail |-> p.fail]
    IN  IF p.yes
        THEN IF r.fault = "create"
             THEN base @@ [created |-> coap, executed |-> 0, out |-> p.out, result |-> "threw"]
             ELSE IF r.fault \in {"execute", "status"}
             THEN base @@ [created |-> coap, executed |-> 1,
                           out |-> Append(p.out, caught), result |-> "false"]
             ELSE LET sw == add_role_to_user_switch(path, r.code)
                  IN  base @@ [created |-> coap, executed |-> 1,
                               out |-> p.out \o sw.out, result |-> Bool(sw.status)]
        ELSE base @@ add_role_to_user_cancelled(path, p.out)

add_role_to_user ==
    \E u \in Users, ro \in Roles, r \in MutatingResponses :
        LET c == add_role_to_user_call(u, ro, stdin, cinFail, r)
        IN  /\ op' = "add_role_to_user" /\ user' = u /\ role' = ro
            /\ stdin0' = stdin /\ cinFail0' = cinFail
            /\ stdin' = c.in /\ cinFail' = c.fail
            /\ yes' = c.yes /\ answer' = c.answer
            /\ resp' = IF c.yes THEN r ELSE NoResponse
            /\ created' = c.created /\ executed' = c.executed
            /\ out' = c.out /\ result' = c.result

\* ---------------------------------------------------------------- remove_role_from_user
remove_role_from_user_path_swapped(u, ro) == "/iam/users/" \o ro \o "/roles/" \o u

remove_role_from_user_path(u, ro) == "/iam/users/" \o u \o "/roles/" \o ro

remove_role_from_user_switch_with_default(path, responseCode) ==
    CASE responseCode = 202 ->
            [out |-> <<Out("Success.")>>, status |-> TRUE]
      [] responseCode = 403 ->
            [out |-> <<Out("The request to DELETE from " \o path \o " was denied.")>>
                         \o print_error_access_denied,
             status |-> FALSE]
      [] responseCode = 500 ->
            [out |-> <<Out("The request returned error 500.\nAre you sure you typed in the right role id and user id?")>>,
             status |-> FALSE]
      [] OTHER ->
            [out |-> print_coap_error(path, responseCode), status |-> FALSE]

remove_role_from_user_switch(path, responseCode) ==
    CASE responseCode = 202 ->
            [out |-> <<Out("Success.")>>, status |-> TRUE]
      [] responseCode = 403 ->
            [out |-> <<Out("The request to DELETE from " \o path \o " was denied.")>>
                         \o print_error_access_denied,
             status |-> FALSE]
      [] responseCode = 500 ->
            [out |-> <<Out("The request returned error 500.\nAre you sure you typed in the right role id and user id?")>>,
             status |-> FALSE]
      [] OTHER ->
            [out |-> <<>>, status |-> FALSE]

remove_role_from_user_cancelled_after_create(path, shown) ==
    [created |-> <<[method |-> "DELETE", path |-> path]>>, executed |-> 0,
     out |-> Append(shown, Out("Action cancelled.")), result |-> "true"]

remove_role_from_user_cancelled(path, shown) ==
    [created |-> <<>>, executed |-> 0,
     out |-> Append(shown, Out("Action cancelled.")), result |-> "true"]

remove_role_from_user_call(u, ro, in, fail, r) ==
    LET path == remove_role_from_user_path(u, ro)
        p == yn_prompt("Remove role \"" \o ro \o "\" from user \"" \o u \o "\"? ", in, fail)
        coap == <<[method |-> "DELETE", path |-> path]>>
        caught == Err("An unknown error occurred.")
        base == [yes |-> p.yes, answer |-> p.answer, in |-> p.in, fail |-> p.fail]
    IN  IF p.yes
        THEN IF r.fault = "create"
             THEN base @@ [created |-> coap, executed |-> 0, out |-> p.out, result |-> "threw"]
             ELSE IF r.fault \in {"execute", "status"}
             THEN base @@ [created |-> coap, executed |-> 1,
                           out |-> Append(p.out, caught), result |-> "false"]
             ELSE LET sw == remove_role_from_user_switch(path, r.code)
                  IN  base @@ [created |-> coap, executed |-> 1,
                               out |-> p.out \o sw.out, result |-> Bool(sw.status)]
        ELSE base @@ remove_role_from_user_cancelled(path, p.out)

remove_role_from_user ==
    \E u \in Users, ro \in Roles, r \in MutatingResponses :
        LET c == remove_role_from_user_call(u, ro, stdin, cinFail, r)
        IN  /\ op' = "remove_role_from_user" /\ user' = u /\ role' = ro
            /\ stdin0' = stdin /\ cinFail0' = cinFail
            /\ stdin' = c.in /\ cinFail' = c.fail
            /\ yes' = c.yes /\ answer' = c.answer
            /\ resp' = IF c.yes THEN r ELSE NoResponse
            /\ created' = c.created /\ executed' = c.executed
            /\ out' = c.out /\ result' = c.result

\* ---------------------------------------------------------------- delete_user
delete_user_path(u) == "/iam/users/" \o u

delete_user_switch_with_500(path, responseCode) ==
    CASE responseCode = 202 ->
            [out |-> <<Out("Success.")>>, status |-> TRUE]
      [] responseCode = 403 ->
            [out |-> <<Out("The request to DELETE from" \o path \o "was denied.")>>
                         \o print_error_access_denied,
             status |-> FALSE]
      [] responseCode = 500 ->
            [out |-> <<Out("The request returned error 500.\nAre you sure you typed in the right role id and user id?")>>,
             status |-> FALSE]
      [] OTHER ->
            [out |-> print_coap_error(path, responseCode), status |-> FALSE]

delete_user_switch(path, responseCode) ==
    CASE responseCode = 202 ->
            [out |-> <<Out("Success.")>>, status |-> TRUE]
      [] responseCode = 403 ->
            [out |-> <<Out("The request to DELETE from" \o path \o "was denied.")>>
                         \o print_error_access_denied,
             status |-> FALSE]
      [] OTHER ->
            [out |-> print_coap_error(path, responseCode), status |-> FALSE]

delete_user_cancelled_returns_false(path, shown) ==
    [created |-> <<>>, executed |-> 0,
     out |-> Append(shown, Out("Action cancelled.")), result |-> "false"]

delete_user_cancelled(path, shown) ==
    [created |-> <<>>, executed |-> 0,
     out |-> Append(shown, Out("Action cancelled.")), result |-> "true"]

delete_user_call(u, in, fail, r) ==
    LET path == delete_user_path(u)
        p == yn_prompt("Delete user \"" \o u \o "\"? ", in, fail)
        coap == <<[method |-> "DELETE", path |-> path]>>
        caught == Err("An unknown error occurred.")
        base == [yes |-> p.yes, answer |-> p.answer, in |-> p.in, fail |-> p.fail]
    IN  IF p.yes
        THEN IF r.fault = "create"
             THEN base @@ [created |-> coap, executed |-> 0, out |-> p.out, result |-> "threw"]
             ELSE IF r.fault \in {"execute", "status"}
             THEN base @@ [created |-> coap, executed |-> 1,
                           out |-> Append(p.out, caught), result |-> "false"]
             ELSE LET sw == delete_user_switch(path, r.code)
                  IN  base @@ [created |-> coap, executed |-> 1,
                               out |-> p.out \o sw.out, result |-> Bool(sw.status)]
        ELSE base @@ delete_user_cancelled(path, p.out)

delete_user ==
    \E u \in Users, r \in MutatingResponses :
        LET c == delete_user_call(u, stdin, cinFail, r)
        IN  /\ op' = "delete_user" /\ user' = u /\ role' = ""
            /\ stdin0' = stdin /\ cinFail0' = cinFail
            /\ stdin' = c.in /\ cinFail' = c.fail
            /\ yes' = c.yes /\ answer' = c.answer
            /\ resp' = IF c.yes THEN r ELSE NoResponse
            /\ created' = c.created /\ executed' = c.executed
            /\ out' = c.out /\ result' = c.result

\* ---------------------------------------------------------------- specification
Init ==
    /\ stdin \in SeqsUpTo(Chars, MaxInput)
    /\ cinFail = FALSE
    /\ op = "none" /\ user = "" /\ role = ""
    /\ stdin0 = stdin /\ cinFail0 = FALSE
    /\ yes = FALSE /\ answer = NUL
    /\ resp = NoResponse
    /\ created = <<>> /\ executed = 0
    /\ out = <<>> /\ result = "none"

Next ==
    \/ list_users
    \/ list_roles
    \/ add_role_to_user
    \/ remove_role_from_user
    \/ delete_user

Spec == Init /\ [][Next]_vars

\* ================================================================ properties
Listing == {"list_users", "list_roles"}
Mutating == {"add_role_to_user", "remove_role_from_user", "delete_user"}

\* the request completed: no call of the collaborator threw
Completed == resp.fault = "none"

AllStrings(items) == \A k \in DOMAIN items : items[k].isString

\* the confirmation message of a mutating operation, as section 4 words it
Question ==
    CASE op = "add_role_to_user" -> "Add role \"" \o role \o "\" to user \"" \o user \o "\"? "
      [] op = "remove_role_from_user" -> "Remove role \"" \o role \o "\" from user \"" \o user \o "\"? "
      [] op = "delete_user" -> "Delete user \"" \o user \o "\"? "
      [] OTHER -> ""
PromptLine == Out(Question \o " [y/n]: ")

\* the resource table of section 6
TableRequest ==
    CASE op = "list_users" -> [method |-> "GET", path |-> "/iam/users"]
      [] op = "list_roles" -> [method |-> "GET", path |-> "/iam/roles"]
      [] op = "add_role_to_user" ->
            [method |-> "PUT", path |-> "/iam/users/" \o user \o "/roles/" \o role]
      [] op = "remove_role_from_user" ->
            [method |-> "DELETE", path |-> "/iam/users/" \o user \o "/roles/" \o role]
      [] op = "delete_user" -> [method |-> "DELETE", path |-> "/iam/users/" \o user]
      [] OTHER -> [method |-> "", path |-> ""]

SuccessCode ==
    CASE op \in Listing -> 205
      [] op = "add_role_to_user" -> 201
      [] op \in {"remove_role_from_user", "delete_user"} -> 202
      [] OTHER -> 0

\* decimal numerals, written out
Numeral(n) ==
    CASE n = 0 -> "0" [] n = 1 -> "1" [] n = 2 -> "2" [] n = 3 -> "3" [] n = 4 -> "4"
      [] n = 5 -> "5" [] n = 6 -> "6" [] n = 7 -> "7" [] n = 8 -> "8" [] n = 9 -> "9"
      [] n = 201 -> "201" [] n = 202 -> "202" [] n = 205 -> "205"
      [] n = 403 -> "403" [] n = 418 -> "418" [] n = 500 -> "500"

GuidanceLine ==
    Out("This is potentially due to insufficient privileges,\ncheck the IAM policies file if you are the owner of this device.")

Header == IF op = "list_users" THEN Out("Listing all users...")
                               ELSE Out("Listing available roles...")
Entry(k, id) == IF op = "list_users" THEN Out("[" \o Numeral(k) \o "] UserID: " \o id)
                                     ELSE Out("[" \o Numeral(k) \o "]: " \o id)

Written == {out[i] : i \in DOMAIN out}

\* C1: a mutating operation whose confirmation prompt returned false returns
\* true and neither creates nor executes a request.
C1_DeclinedIsNoOp ==
    (op \in Mutating /\ ~yes) =>
        (result = "true" /\ created = <<>> /\ executed = 0)

C1_Witness ==
    /\ op = "delete_user" /\ answer = "n" /\ ~yes
    /\ result = "true" /\ created = <<>>

\* C2: in each of the five operations a request that completes with status 403
\* makes the operation return false and emit the access-denied guidance.
C2_DeniedGivesGuidance ==
    (op # "none" /\ Completed /\ resp.code = 403) =>
        (result = "false" /\ GuidanceLine \in Written)

C2_Witness ==
    /\ op = "add_role_to_user" /\ yes /\ Completed /\ resp.code = 403
    /\ result = "false" /\ GuidanceLine \in Written

\* C3, as claimed: every invocation of any of the five operations creates
\* exactly one request, whatever the prompt answer.
C3_ExactlyOneRequest ==
    op # "none" => Len(created) = 1

\* C3, amended: an invocation creates at most one request and executes it at
\* most once; a list operation or a confirmed mutating operation creates
\* exactly one and executes it exactly once unless creating it throws; a
\* declined mutating operation creates and executes none.
C3_AtMostOneRequest ==
    op # "none" =>
        /\ Len(created) <= 1
        /\ (Len(created) = 1 <=> (op \in Listing \/ yes))
        /\ executed = (IF Len(created) = 1 /\ resp.fault # "create" THEN 1 ELSE 0)

C3_Witness ==
    /\ op = "remove_role_from_user" /\ yes /\ Completed /\ resp.code = 500
    /\ Len(created) = 1 /\ executed = 1 /\ result = "false"

\* C4: every request an operation creates carries the method and the path of
\* the resource table, with the caller's user and role unchanged.
C4_RequestMatchesTable ==
    \A i \in DOMAIN created : created[i] = TableRequest

C4_Witness ==
    /\ op = "remove_role_from_user" /\ user = "a/b" /\ role = "admin"
    /\ created = <<[method |-> "DELETE", path |-> "/iam/users/a/b/roles/admin"]>>

\* C5: a fault at any step of the request (creating it, executing it, reading
\* the status, reading or decoding the payload) is caught: the operation
\* returns false and emits no success output.
Faulted ==
    \/ resp.fault \in {"create", "execute", "status", "payload", "decode"}
    \/ (op \in Listing /\ Completed /\ resp.code = 205 /\ ~AllStrings(resp.payload.items))

SuccessOutput ==
    \/ Out("Success.") \in Written
    \/ op \in Listing /\ Header \in Written

C5_FaultIsCaught ==
    (op # "none" /\ Faulted) => (result = "false" /\ ~SuccessOutput)

\* C6: in list_users, list_roles, confirmed add_role_to_user and confirmed
\* delete_user a completed status the operation does not handle makes it return
\* false and print the generic line naming the path and the code.
Handled ==
    {SuccessCode, 403} \cup (IF op = "add_role_to_user" THEN {500} ELSE {})

C6_UnhandledStatusIsReported ==
    (/\ op \in {"list_users", "list_roles", "add_role_to_user", "delete_user"}
     /\ (op \in Mutating => yes)
     /\ Completed /\ resp.code \notin Handled)
    => /\ result = "false"
       /\ out # <<>>
       /\ out[Len(out)] = Out("The CoAP request to " \o TableRequest.path
                               \o " returned response code: " \o Numeral(resp.code))

C6_Witness ==
    /\ op = "delete_user" /\ user = "alice" /\ yes /\ Completed /\ resp.code = 500
    /\ result = "false"
    /\ out[Len(out)] = Out("The CoAP request to /iam/users/alice returned response code: 500")

\* C7: yn_prompt shows the prompt once per character it tries to read, keeps
\* reading while the character is neither 'y' nor 'n' and the stream has not
\* failed, stops at the first 'y', 'n' or failure, and returns true exactly when
\* the last character read is 'y'.
Decisive == {i \in DOMAIN stdin0 : stdin0[i] \in {"y", "n"}}
FirstDecisive == CHOOSE i \in Decisive : \A j \in Decisive : i <= j
ReadUpTo(k) == Cardinality({i \in 1..k : stdin0[i] # " "})
Prompts == Cardinality({i \in DOMAIN out : out[i] = PromptLine})

C7_PromptLoop ==
    op \in Mutating =>
        /\ yes <=> answer = "y"
        /\ \A i \in 1..Prompts : out[i] = PromptLine
        /\ IF cinFail0
           THEN Prompts = 1 /\ ~yes /\ cinFail /\ stdin = stdin0
           ELSE IF Decisive = {}
           THEN Prompts = ReadUpTo(Len(stdin0)) + 1 /\ ~yes /\ cinFail /\ stdin = <<>>
           ELSE /\ Prompts = ReadUpTo(FirstDecisive)
                /\ yes <=> stdin0[FirstDecisive] = "y"
                /\ ~cinFail
                /\ stdin = SubSeq(stdin0, FirstDecisive + 1, Len(stdin0))

C7_Witness ==
    /\ op \in Mutating /\ stdin0 = <<"x">> /\ ~cinFail0
    /\ Prompts = 2 /\ answer = "x" /\ cinFail /\ ~yes

\* C8: list_users and list_roles, given status 205 and a payload decoding to n
\* strings, print the header and then exactly n entries, the k-th carrying
\* index k and the k-th string, and return true.
C8_ListingInOrder ==
    (op \in Listing /\ Completed /\ resp.code = 205 /\ AllStrings(resp.payload.items)) =>
        LET items == resp.payload.items
        IN  /\ result = "true"
            /\ Len(out) = Len(items) + 1
            /\ out[1] = Header
            /\ \A k \in DOMAIN items : out[k + 1] = Entry(k, items[k].str)

C8_Witness ==
    /\ op = "list_users" /\ result = "true"
    /\ out = <<Out("Listing all users..."), Out("[1] UserID: alice"), Out("[2] UserID: bob")>>

\* C9: confirmed remove_role_from_user, on a completed status other than 202,
\* 403 and 500, returns false and writes nothing after the prompt.
C9_RemoveRoleSilentDefault ==
    (op = "remove_role_from_user" /\ yes /\ Completed /\ resp.code \notin {202, 403, 500}) =>
        (result = "false" /\ \A i \in DOMAIN out : out[i] = PromptLine)

C9_Witness ==
    /\ op = "remove_role_from_user" /\ yes /\ Completed /\ resp.code = 418
    /\ result = "false" /\ Len(out) = 1

\* C10: an operation returns true exactly when it is a declined mutating
\* operation, or its request completed without fault with its own success code
\* (and, for a listing, every payload item decoded as a string).
C10_TrueIffDeclinedOrOwnSuccess ==
    op # "none" =>
        (result = "true" <=>
            \/ op \in Mutating /\ ~yes
            \/ /\ op \in Listing \/ yes
               /\ Completed /\ resp.code = SuccessCode
               /\ op \in Listing => AllStrings(resp.payload.items))

C10_Witness ==
    /\ op = "add_role_to_user" /\ yes /\ Completed /\ resp.code = 202
    /\ result = "false"

====
